---- MODULE Spec2Model ----
(***************************************************************************)
(* Media approval bot (aiogram_media_approval_bot.py, lines 1-338): the    *)
(* album buffer with its debounce timer, the pending store, and the        *)
(* moderator callbacks (approve_all, reject_all, selective, keep_remove,   *)
(* finalize).  Every coroutine is cut at its awaits: the code between two  *)
(* awaits runs atomically on the event loop, an await on the transport may *)
(* take any time and may raise.                                            *)
(***************************************************************************)
EXTENDS Integers, Sequences, FiniteSets, TLC

\* ------------------------------------------------------------- bounds
\* Inbound chat messages handled in one run.
MaxMsgs == 3
\* Moderator callbacks handled in one run.
MaxActions == 3
\* Items of the longest row found in the table when the callbacks start.
MaxItems == 3
\* The largest submission id a callback names.
MaxPid == 2

\* ---------------------------------------------------------- constants
MEDIA_TIMEOUT == 5

\* Time is counted in whole units; a gap is remembered up to "more than the
\* quiet period".
GapCap == MEDIA_TIMEOUT + 1

Keys == {"g1", "g2"}
\* What an inbound message carries: both types, no caption, and two
\* different captions.
Payloads == {[type |-> "photo", caption |-> ""],
             [type |-> "photo", caption |-> "hi"],
             [type |-> "video", caption |-> "bye"]}
Users == {"u1"}
\* Submission ids a callback may name.
Pids == 1..MaxPid
\* Item indices a keep/remove callback may name (0-based, as in the code):
\* every index of the longest row and one past it.
Idxs == 0..MaxItems

VARIABLES
    pending,               \* the pending table: id -> row
    lastrowid,             \* AUTOINCREMENT: the largest id ever given
    media_buffer,          \* key -> items appended so far
    album_meta,            \* key -> identity and caption of the album
    flush_tasks,           \* key -> the task armed for the key
    tasks,                 \* flush_album coroutines sleeping in asyncio.sleep
    deleting,              \* handle_message coroutines awaiting msg.delete()
    selective_selections,  \* id -> (index -> keep?)
    cb,                    \* the callbacks being handled (coroutines at an await)
    nact,                  \* callbacks received
    last,                  \* what the latest handler step did
    answers,               \* the outcomes of the handlers that have ended
    finalize_prompts,      \* id -> finalize buttons sent since selective(id)
    main_group,            \* what was sent to MAIN_GROUP_ID, in order
    approval_group,        \* what was sent to APPROVAL_GROUP_ID, in order
    nmsg,                  \* messages received; message n carries file_id n
    arrivals,              \* key -> the album items received: caption and gap
    since,                 \* key -> time units since the key's last arrival
    empty_flushes,         \* timers that fired and found nothing to flush
    created                \* every row ever inserted, in order

vars == <<pending, lastrowid, media_buffer, album_meta, flush_tasks, tasks,
          deleting, selective_selections, cb, nact, last, answers,
          finalize_prompts, main_group, approval_group, nmsg, arrivals, since,
          empty_flushes, created>>

reviewVars == <<selective_selections, cb, nact, last, answers, finalize_prompts,
               main_group>>

ingestVars == <<media_buffer, album_meta, flush_tasks, tasks, deleting, nmsg,
                arrivals, since, empty_flushes>>

\* ------------------------------------------------------ python dicts
\* d[k] = v
Put(d, k, v) == [x \in DOMAIN d \cup {k} |-> IF x = k THEN v ELSE d[x]]
\* d.pop(k, None): the dict without k
Pop(d, k) == [x \in DOMAIN d \ {k} |-> d[x]]
\* d.get(k, default)
Get(d, k, default) == IF k \in DOMAIN d THEN d[k] ELSE default
EmptyDict == <<>>

\* ------------------------------------------------------------- store
\* save_pending: INSERT, the new id is lastrowid + 1 (AUTOINCREMENT never
\* gives an id again, also after a DELETE).
NewRow(user_id, mgid, is_album, caption, items) ==
    [user_id |-> user_id, media_group_id |-> mgid, is_album |-> is_album,
     caption |-> caption, items |-> items]

\* get_pending(pid): the row or None
Found(pid) == pid \in DOMAIN pending

\* delete_pending without its effect (the DELETE is never committed).
delete_pending_uncommitted(p, pid) == p

\* delete_pending(pid): DELETE WHERE id = pid, a no-op on an absent id
delete_pending(p, pid) == Pop(p, pid)

\* save_pending(...) followed by forward_to_approval(pid) (lines 156-184):
\* the row is read back, the album is forwarded (a failure is logged and
\* swallowed, line 175) and the control message with approval_kb(pid) is
\* sent; sent says whether that send_message went through.
Sent(group, what, pid) ==
    LET e == [what |-> what, pid |-> pid]
    IN  Put(group, e, Get(group, e, 0) + 1)

SaveAndForward(row, sent) ==
    LET pid == lastrowid + 1
    IN  /\ pending' = Put(pending, pid, row)
        /\ lastrowid' = pid
        /\ created' = Append(created, [id |-> pid, row |-> row])
        /\ approval_group' = IF sent THEN Sent(approval_group, "approval_kb", pid)
                             ELSE approval_group

\* ------------------------------------------------------- handle_message
\* How a gap between two arrivals on one key compares with the quiet period.
GapClass(g) == IF g < MEDIA_TIMEOUT THEN "below"
               ELSE IF g = MEDIA_TIMEOUT THEN "equal" ELSE "above"

Item(file_id, typ) == [file_id |-> file_id, type |-> typ]

\* The buffer entry replaced by the new item instead of extended.
BufferAppendReplace(buf, key, item) == Put(buf, key, <<item>>)

\* line 208: media_buffer.setdefault(key, []).append({...})
BufferAppend(buf, key, item) == Put(buf, key, Append(Get(buf, key, <<>>), item))

\* album_meta with the caption overwritten by every message that has one.
MetaUpdateLastCaption(metas, key, user_id, caption) ==
    LET meta == Get(metas, key, EmptyDict)
        m1 == IF "user_id" \notin DOMAIN meta
              THEN Put(Put(meta, "user_id", user_id), "media_group_id", key)
              ELSE meta
        m2 == IF caption # "" THEN Put(m1, "caption", caption) ELSE m1
    IN  Put(metas, key, m2)

\* lines 210-220: identity is taken from the first message of the key, the
\* caption from the first message that has one.
MetaUpdate(metas, key, user_id, caption) ==
    LET meta == Get(metas, key, EmptyDict)
        m1 == IF "user_id" \notin DOMAIN meta
              THEN Put(Put(meta, "user_id", user_id), "media_group_id", key)
              ELSE meta
        m2 == IF caption # "" /\ "caption" \notin DOMAIN m1
              THEN Put(m1, "caption", caption)
              ELSE m1
    IN  Put(metas, key, m2)

\* lines 197-223: an album message; the coroutine then awaits msg.delete().
HandleAlbumAppend(key, typ, caption, user_id) ==
    /\ nmsg < MaxMsgs
    /\ nmsg' = nmsg + 1
    /\ media_buffer' = BufferAppend(media_buffer, key, Item(nmsg + 1, typ))
    /\ album_meta' = MetaUpdate(album_meta, key, user_id, caption)
    /\ deleting' = deleting \cup {[id |-> nmsg + 1, key |-> key]}
    /\ arrivals' = [arrivals EXCEPT ![key] =
                       Append(@, [file_id |-> nmsg + 1, caption |-> caption,
                                   gap |-> GapClass(since[key])])]
    /\ since' = [since EXCEPT ![key] = 0]
    /\ UNCHANGED <<flush_tasks, tasks, empty_flushes, pending, lastrowid,
                   created, approval_group, reviewVars>>

\* The re-arm without the cancel of the task armed before.
TouchNoCancel(h) ==
    /\ tasks' = tasks \cup {[id |-> h.id, key |-> h.key,
                              remaining |-> MEDIA_TIMEOUT]}
    /\ flush_tasks' = Put(flush_tasks, h.key, h.id)

\* The cancel without the re-arm.
TouchCancelOnly(h) ==
    /\ tasks' = {t \in tasks : ~(h.key \in DOMAIN flush_tasks
                                  /\ t.id = flush_tasks[h.key])}
    /\ flush_tasks' = Pop(flush_tasks, h.key)

\* lines 227-229: flush_tasks[key].cancel() if there is one, then a new
\* flush_album task is created and stored.  A cancelled task is woken with
\* CancelledError inside asyncio.sleep and ends there.
Touch(h) ==
    /\ tasks' = {t \in tasks : ~(h.key \in DOMAIN flush_tasks
                                  /\ t.id = flush_tasks[h.key])}
                \cup {[id |-> h.id, key |-> h.key, remaining |-> MEDIA_TIMEOUT]}
    /\ flush_tasks' = Put(flush_tasks, h.key, h.id)

\* lines 222-230: msg.delete() has returned or raised (both are passed over).
HandleAlbumTouch(h) ==
    /\ h \in deleting
    /\ deleting' = deleting \ {h}
    /\ Touch(h)
    /\ UNCHANGED <<media_buffer, album_meta, nmsg, arrivals, since,
                   empty_flushes, pending, lastrowid, created, approval_group,
                   reviewVars>>

\* lines 232-244: a photo or video outside an album is saved and forwarded
\* at once.
HandleSingle(typ, caption, user_id, sent) ==
    /\ nmsg < MaxMsgs
    /\ nmsg' = nmsg + 1
    /\ SaveAndForward(NewRow(user_id, "", FALSE, caption,
                             <<Item(nmsg + 1, typ)>>), sent)
    /\ UNCHANGED <<media_buffer, album_meta, flush_tasks, tasks, deleting,
                   arrivals, since, empty_flushes, reviewVars>>

\* ---------------------------------------------------------- flush_album
\* flush_album that reads the buffer entry after it has popped it: the row
\* is saved with what is left of the entry, which is nothing.
FlushAlbumReadsAfterPop(t, sent) ==
    /\ t \in tasks
    /\ t.remaining = 0
    /\ tasks' = tasks \ {t}
    /\ LET popped == Pop(media_buffer, t.key)
           items == Get(popped, t.key, <<>>)
           meta == Get(album_meta, t.key, EmptyDict)
       IN  /\ media_buffer' = popped
           /\ album_meta' = Pop(album_meta, t.key)
           /\ flush_tasks' = Pop(flush_tasks, t.key)
           /\ IF meta = EmptyDict
              THEN /\ sent
                   /\ empty_flushes' = empty_flushes + 1
                   /\ UNCHANGED <<pending, lastrowid, created, approval_group>>
              ELSE /\ SaveAndForward(NewRow(meta["user_id"],
                                            meta["media_group_id"], TRUE,
                                            Get(meta, "caption", ""), items),
                                     sent)
                   /\ UNCHANGED empty_flushes
    /\ UNCHANGED <<deleting, nmsg, arrivals, since, reviewVars>>

\* lines 141-153, from the wake-up of asyncio.sleep(MEDIA_TIMEOUT) on.
FlushAlbum(t, sent) ==
    /\ t \in tasks
    /\ t.remaining = 0
    /\ tasks' = tasks \ {t}
    /\ LET items == Get(media_buffer, t.key, <<>>)
           meta == Get(album_meta, t.key, EmptyDict)
       IN  /\ media_buffer' = Pop(media_buffer, t.key)
           /\ album_meta' = Pop(album_meta, t.key)
           /\ flush_tasks' = Pop(flush_tasks, t.key)
           /\ IF items = <<>> \/ meta = EmptyDict
              THEN /\ sent
                   /\ empty_flushes' = empty_flushes + 1
                   /\ UNCHANGED <<pending, lastrowid, created, approval_group>>
              ELSE /\ SaveAndForward(NewRow(meta["user_id"],
                                            meta["media_group_id"], TRUE,
                                            Get(meta, "caption", ""), items),
                                     sent)
                   /\ UNCHANGED empty_flushes
    /\ UNCHANGED <<deleting, nmsg, arrivals, since, reviewVars>>

\* ------------------------------------------------------------ callbacks
\* A callback being handled: what it is, where the coroutine stands (pc),
\* the decisions it read (sel, line 308) and what it is about to send to the
\* main group (mode, media, user_id).
Handler(kind, pid, pc, sel, mode, media, user_id) ==
    [kind |-> kind, pid |-> pid, pc |-> pc, sel |-> sel, mode |-> mode,
     media |-> media, user_id |-> user_id]

\* cb counts the coroutines that stand at the same place with the same data.
Running(h) == Get(cb, h, 0) > 0
Spawn(hs, h) == Put(hs, h, Get(hs, h, 0) + 1)
Leave(hs, h) == IF hs[h] = 1 THEN Pop(hs, h) ELSE Put(hs, h, hs[h] - 1)

\* What a handler step did: the callback it belongs to, whether get_pending
\* found the row (found), the step, and what the moderator was answered
\* ("" for nothing).
Event(kind, pid, idx, found, step, ack) ==
    [kind |-> kind, pid |-> pid, idx |-> idx, found |-> found, step |-> step,
     ack |-> ack]

\* A handler has returned ("done") or raised ("raised"): its outcome is kept.
Outcome(e) == [kind |-> e.kind, pid |-> e.pid, found |-> e.found, ack |-> e.ack]

Record(e) ==
    /\ last' = e
    /\ answers' = IF e.step \in {"done", "raised"}
                  THEN answers \cup {Outcome(e)} ELSE answers

\* types.InputMediaPhoto / InputMediaVideo (media=file_id), caption None is ""
InputMedia(it, caption) ==
    [file_id |-> it.file_id, type |-> it.type, caption |-> caption]

\* approve_all with the caption put on every item.
ApproveMediaCaptionAll(row) ==
    [i \in 1..Len(row.items) |-> InputMedia(row.items[i], row.caption)]

\* approve_all, lines 254-259: every item, the caption on the first one.
ApproveMedia(row) ==
    [i \in 1..Len(row.items) |->
        InputMedia(row.items[i], IF i = 1 THEN row.caption ELSE "")]

\* finalize, lines 308-315: the items whose index is not decided False, in
\* the order of the row; the caption goes on the first one kept.
RECURSIVE FinalizeFrom(_, _, _, _)
FinalizeFrom(row, sel, i, approved) ==
    IF i > Len(row.items) THEN approved
    ELSE IF Get(sel, i - 1, TRUE)
         THEN FinalizeFrom(row, sel, i + 1,
                  Append(approved,
                         InputMedia(row.items[i],
                                    IF approved = <<>> THEN row.caption ELSE "")))
         ELSE FinalizeFrom(row, sel, i + 1, approved)

\* finalize with the approved list built by insert(0, m) instead of append.
FinalizeApprovedReversed(row, sel) ==
    LET a == FinalizeFrom(row, sel, 1, <<>>)
    IN  [i \in 1..Len(a) |-> a[Len(a) + 1 - i]]

\* finalize with sel.get(idx, False) instead of sel.get(idx, True).
FinalizeApprovedDefaultRemove(row, sel) ==
    FinalizeFrom(row, [i \in 0..(Len(row.items) - 1) |-> Get(sel, i, FALSE)],
                 1, <<>>)

\* finalize with the caption tied to item 0: it is lost when item 0 is removed.
FinalizeApprovedCaptionAtZero(row, sel) ==
    LET a == FinalizeFrom(row, sel, 1, <<>>)
    IN  [i \in 1..Len(a) |->
            [a[i] EXCEPT !.caption = IF a[i].file_id = row.items[1].file_id
                                     THEN row.caption ELSE ""]]

FinalizeApproved(row, sel) == FinalizeFrom(row, sel, 1, <<>>)

\* finalize, lines 318-323: send_media_group for more than one item, else
\* send_photo or send_video.
FinalizeMode(approved) ==
    IF Len(approved) > 1 THEN "media_group" ELSE approved[1].type

\* approve_all, lines 248-261, up to the await of send_media_group.
ApproveAllStart(pid) ==
    /\ nact < MaxActions
    /\ nact' = nact + 1
    /\ IF Found(pid)
       THEN /\ cb' = Spawn(cb, Handler("approve_all", pid, "send_media",
                                      EmptyDict, "media_group", ApproveMedia(pending[pid]),
                                      pending[pid].user_id))
            /\ Record(Event("approve_all", pid, 0, TRUE, "start", ""))
       ELSE /\ cb' = cb
            /\ Record(Event("approve_all", pid, 0, FALSE, "done",
                            "Not found"))
    /\ UNCHANGED <<pending, selective_selections, main_group, approval_group,
                   finalize_prompts, lastrowid, created, ingestVars>>

\* reject_all, lines 269-273.
RejectAll(pid) ==
    /\ nact < MaxActions
    /\ nact' = nact + 1
    /\ pending' = IF Found(pid) THEN delete_pending(pending, pid) ELSE pending
    /\ Record(Event("reject_all", pid, 0, Found(pid), "done", "Rejected"))
    /\ UNCHANGED <<cb, selective_selections, main_group, approval_group,
                   finalize_prompts, lastrowid, created, ingestVars>>

\* selective, lines 276-288: the selection of pid is reset, one keep/remove
\* message per item is sent, then the control message is edited.  sent is
\* whether all these sends went through.
Selective(pid, sent) ==
    /\ nact < MaxActions
    /\ nact' = nact + 1
    /\ IF Found(pid)
       THEN /\ selective_selections' = Put(selective_selections, pid, EmptyDict)
            /\ finalize_prompts' = [finalize_prompts EXCEPT ![pid] = 0]
            /\ Record(IF sent
                      THEN Event("selective", pid, 0, TRUE, "done",
                                 "Select items to keep/remove")
                      ELSE Event("selective", pid, 0, TRUE, "raised", ""))
       ELSE /\ sent
            /\ Record(Event("selective", pid, 0, FALSE, "done", ""))
            /\ UNCHANGED <<selective_selections, finalize_prompts>>
    /\ UNCHANGED <<cb, pending, main_group, approval_group, lastrowid, created,
                   ingestVars>>

\* keep_remove with setdefault(idx, keep): the first decision of an index
\* stays.
DecideFirstWins(sels, pid, idx, keep) ==
    LET sel == Get(sels, pid, EmptyDict)
    IN  Put(sels, pid, Put(sel, idx, Get(sel, idx, keep)))

\* keep_remove that rebuilds selective_selections with the map of pid only.
DecideDropsOthers(sels, pid, idx, keep) ==
    Put(EmptyDict, pid, Put(Get(sels, pid, EmptyDict), idx, keep))

\* keep_remove, line 294: selective_selections.setdefault(pid, {})[idx] = keep
Decide(sels, pid, idx, keep) ==
    Put(sels, pid, Put(Get(sels, pid, EmptyDict), idx, keep))

\* keep_remove, lines 292-295: the decision is stored and answered; the
\* coroutine then awaits cb.answer.
KeepRemoveStart(keep, pid, idx) ==
    /\ nact < MaxActions
    /\ nact' = nact + 1
    /\ selective_selections' = Decide(selective_selections, pid, idx, keep)
    /\ cb' = Spawn(cb, Handler(IF keep THEN "keep" ELSE "remove", pid,
                              "check", EmptyDict, "", <<>>, ""))
    /\ Record(Event(IF keep THEN "keep" ELSE "remove", pid, idx,
                    Found(pid), "start", IF keep THEN "Kept" ELSE "Removed"))
    /\ UNCHANGED <<pending, main_group, approval_group, finalize_prompts,
                   lastrowid, created, ingestVars>>

\* keep_remove, line 298: the selection has as many entries as the row has
\* items.
AllReviewed(sel, row) == Cardinality(DOMAIN sel) = Len(row.items)

\* keep_remove, lines 297-299: after cb.answer the row is read and the
\* finalize button is sent when all items are reviewed.  sent is whether
\* that send_message went through.
KeepRemoveCheck(h, sent) ==
    /\ Running(h)
    /\ h.pc = "check"
    /\ cb' = Leave(cb, h)
    /\ LET e(step) == Event(h.kind, h.pid, 0, Found(h.pid), step,
                            IF h.kind = "keep" THEN "Kept" ELSE "Removed")
       IN  IF ~Found(h.pid)
           THEN /\ sent
                /\ Record(e("done"))
                /\ UNCHANGED <<approval_group, finalize_prompts>>
           ELSE IF h.pid \notin DOMAIN selective_selections
           THEN /\ sent  \* KeyError
                /\ Record(e("raised"))
                /\ UNCHANGED <<approval_group, finalize_prompts>>
           ELSE IF AllReviewed(selective_selections[h.pid], pending[h.pid])
           THEN /\ Record(e(IF sent THEN "done" ELSE "raised"))
                /\ approval_group' =
                       IF sent THEN Sent(approval_group, "finalize_kb", h.pid)
                       ELSE approval_group
                /\ finalize_prompts' =
                       IF sent THEN [finalize_prompts EXCEPT ![h.pid] = @ + 1]
                       ELSE finalize_prompts
           ELSE /\ sent
                /\ Record(e("done"))
                /\ UNCHANGED <<approval_group, finalize_prompts>>
    /\ UNCHANGED <<nact, pending, selective_selections, main_group, lastrowid,
                   created, ingestVars>>

\* finalize, lines 302-323, up to the await of the send to the main group;
\* with nothing approved, lines 328-330 follow at once.
FinalizeStart(pid) ==
    /\ nact < MaxActions
    /\ nact' = nact + 1
    /\ IF ~Found(pid)
       THEN /\ Record(Event("finalize", pid, 0, FALSE, "done", ""))
            /\ UNCHANGED <<cb, pending, selective_selections>>
       ELSE LET sel == Get(selective_selections, pid, EmptyDict)
                approved == FinalizeApproved(pending[pid], sel)
            IN  IF approved # <<>>
                THEN /\ cb' = Spawn(cb, Handler("finalize", pid,
                                               "send_media", sel,
                                               FinalizeMode(approved),
                                               approved, pending[pid].user_id))
                     /\ Record(Event("finalize", pid, 0, TRUE, "start", ""))
                     /\ UNCHANGED <<pending, selective_selections>>
                ELSE /\ pending' = delete_pending(pending, pid)
                     /\ selective_selections' = Pop(selective_selections, pid)
                     /\ Record(Event("finalize", pid, 0, TRUE, "done",
                                     "Selective approval completed"))
                     /\ UNCHANGED cb
    /\ UNCHANGED <<main_group, approval_group, finalize_prompts, lastrowid,
                   created, ingestVars>>

\* The send to the main group with the row deleted in a finally clause:
\* also when the send raises.
SendMediaDeleteAlways(h, ok) ==
    /\ Running(h)
    /\ h.pc = "send_media"
    /\ IF ok
       THEN /\ main_group' = Append(main_group,
                   [kind |-> h.kind, pid |-> h.pid, what |-> h.mode,
                    sel |-> h.sel, media |-> h.media, user_id |-> ""])
            /\ cb' = Spawn(Leave(cb, h), [h EXCEPT !.pc = "send_text"])
            /\ Record(Event(h.kind, h.pid, 0, TRUE, "sent_media", ""))
            /\ UNCHANGED pending
       ELSE /\ cb' = Leave(cb, h)
            /\ Record(Event(h.kind, h.pid, 0, TRUE, "raised", ""))
            /\ pending' = delete_pending(pending, h.pid)
            /\ UNCHANGED main_group
    /\ UNCHANGED <<nact, selective_selections, approval_group,
                   finalize_prompts, lastrowid, created, ingestVars>>

\* approve_all line 261, finalize lines 319-323: the send to the main group
\* returns (ok) or raises; an exception ends the handler where it stands.
SendMedia(h, ok) ==
    /\ Running(h)
    /\ h.pc = "send_media"
    /\ IF ok
       THEN /\ main_group' = Append(main_group,
                   [kind |-> h.kind, pid |-> h.pid, what |-> h.mode,
                    sel |-> h.sel, media |-> h.media, user_id |-> ""])
            /\ cb' = Spawn(Leave(cb, h), [h EXCEPT !.pc = "send_text"])
            /\ Record(Event(h.kind, h.pid, 0, TRUE, "sent_media", ""))
       ELSE /\ cb' = Leave(cb, h)
            /\ Record(Event(h.kind, h.pid, 0, TRUE, "raised", ""))
            /\ UNCHANGED main_group
    /\ UNCHANGED <<nact, pending, selective_selections, approval_group,
                   finalize_prompts, lastrowid, created, ingestVars>>

\* approve_all lines 262-266, finalize lines 324-330: the attribution
\* message returns (ok) or raises; after it the row is deleted (finalize
\* also drops the selection) and the control message is edited.
SendText(h, ok) ==
    /\ Running(h)
    /\ h.pc = "send_text"
    /\ cb' = Leave(cb, h)
    /\ IF ok
       THEN /\ main_group' = Append(main_group,
                   [kind |-> h.kind, pid |-> h.pid, what |-> "text",
                    sel |-> h.sel, media |-> <<>>, user_id |-> h.user_id])
            /\ pending' = delete_pending(pending, h.pid)
            /\ selective_selections' =
                   IF h.kind = "finalize"
                   THEN Pop(selective_selections, h.pid)
                   ELSE selective_selections
            /\ Record(Event(h.kind, h.pid, 0, TRUE, "done",
                            IF h.kind = "finalize"
                            THEN "Selective approval completed"
                            ELSE "Approved & posted"))
       ELSE /\ Record(Event(h.kind, h.pid, 0, TRUE, "raised", ""))
            /\ UNCHANGED <<main_group, pending, selective_selections>>
    /\ UNCHANGED <<nact, approval_group, finalize_prompts, lastrowid, created,
                   ingestVars>>

\* The dispatcher runs every callback as a task of its own.
NextReview ==
    \/ \E pid \in Pids : ApproveAllStart(pid)
    \/ \E pid \in Pids : RejectAll(pid)
    \/ \E pid \in Pids, s \in BOOLEAN : Selective(pid, s)
    \/ \E keep \in BOOLEAN, pid \in Pids, idx \in Idxs :
          KeepRemoveStart(keep, pid, idx)
    \/ \E h \in DOMAIN cb, s \in BOOLEAN : KeepRemoveCheck(h, s)
    \/ \E pid \in Pids : FinalizeStart(pid)
    \/ \E h \in DOMAIN cb, ok \in BOOLEAN : SendMedia(h, ok)
    \/ \E h \in DOMAIN cb, ok \in BOOLEAN : SendText(h, ok)

\* ----------------------------------------------------------------- time
Min(a, b) == IF a < b THEN a ELSE b

\* One time unit passes.  A task whose sleep has run out is woken by the
\* event loop before the clock moves on; an await on the transport
\* (msg.delete(), a send) may last any number of units.
Tick ==
    /\ \A t \in tasks : t.remaining > 0
    /\ tasks # {} \/ \E k \in Keys : since[k] < GapCap
    /\ tasks' = {[t EXCEPT !.remaining = @ - 1] : t \in tasks}
    /\ since' = [k \in Keys |-> Min(since[k] + 1, GapCap)]
    /\ UNCHANGED <<media_buffer, album_meta, flush_tasks, deleting, nmsg,
                   arrivals, empty_flushes, pending, lastrowid, created,
                   approval_group, reviewVars>>

NoEvent == Event("", 0, 0, FALSE, "", "")

\* The keys are interchangeable: the second one is used only once the first
\* has been.
UsableKeys == IF arrivals["g1"] = <<>> THEN {"g1"} ELSE Keys

Init ==
    /\ pending = EmptyDict
    /\ lastrowid = 0
    /\ media_buffer = EmptyDict
    /\ album_meta = EmptyDict
    /\ flush_tasks = EmptyDict
    /\ tasks = {}
    /\ deleting = {}
    /\ selective_selections = EmptyDict
    /\ cb = EmptyDict
    /\ nact = 0
    /\ last = NoEvent
    /\ answers = {}
    /\ finalize_prompts = [pid \in Pids |-> 0]
    /\ main_group = <<>>
    /\ approval_group = EmptyDict
    /\ nmsg = 0
    /\ arrivals = [k \in Keys |-> <<>>]
    /\ since = [k \in Keys |-> GapCap]
    /\ empty_flushes = 0
    /\ created = <<>>

\* The process starts on a table that an earlier run has filled (the table
\* is a file, the dicts are not): rows as save_pending writes them.
AlbumItems(n, first) ==
    [i \in 1..n |-> Item(first + i - 1, IF i % 2 = 1 THEN "photo" ELSE "video")]

StoredRows ==
    {NewRow("u1", IF n > 1 THEN "g1" ELSE "", n > 1, c, AlbumItems(n, 1)) :
        n \in 1..MaxItems, c \in {"", "hi"}}

OtherRow == NewRow("u1", "", FALSE, "bye", <<Item(11, "video")>>)

Stores ==
    {Put(EmptyDict, 1, r) : r \in StoredRows}
    \cup {Put(Put(EmptyDict, 1, r), 2, OtherRow) :
             r \in {x \in StoredRows : Len(x.items) = 2 /\ x.caption = "hi"}}

\* Ids 1 and 2 have been given; the row of id 2 is there or has been deleted.
InitReview ==
    /\ pending \in Stores
    /\ lastrowid = 2
    /\ created = IF 2 \in DOMAIN pending
                 THEN <<[id |-> 1, row |-> pending[1]], [id |-> 2, row |-> pending[2]]>>
                 ELSE <<[id |-> 1, row |-> pending[1]]>>
    /\ media_buffer = EmptyDict
    /\ album_meta = EmptyDict
    /\ flush_tasks = EmptyDict
    /\ tasks = {}
    /\ deleting = {}
    /\ selective_selections = EmptyDict
    /\ cb = EmptyDict
    /\ nact = 0
    /\ last = NoEvent
    /\ answers = {}
    /\ finalize_prompts = [pid \in Pids |-> 0]
    /\ main_group = <<>>
    /\ approval_group = EmptyDict
    /\ nmsg = 0
    /\ arrivals = [k \in Keys |-> <<>>]
    /\ since = [k \in Keys |-> GapCap]
    /\ empty_flushes = 0

Next ==
    \/ \E k \in UsableKeys, m \in Payloads, u \in Users :
          HandleAlbumAppend(k, m.type, m.caption, u)
    \/ \E h \in deleting : HandleAlbumTouch(h)
    \/ \E m \in Payloads, u \in Users, s \in BOOLEAN :
          HandleSingle(m.type, m.caption, u, s)
    \/ \E t \in tasks, s \in BOOLEAN : FlushAlbum(t, s)
    \/ Tick

Spec == Init /\ [][Next]_vars

\* The handlers and timers of Next with one kind of message: what a message
\* carries (type, caption) has no part in when a handler or a timer runs.
NextFair ==
    \/ \E k \in UsableKeys, u \in Users :
          HandleAlbumAppend(k, "photo", "hi", u)
    \/ \E h \in deleting : HandleAlbumTouch(h)
    \/ \E u \in Users, s \in BOOLEAN : HandleSingle("photo", "hi", u, s)
    \/ \E t \in tasks, s \in BOOLEAN : FlushAlbum(t, s)
    \/ Tick

\* The event loop is fair: an awaited msg.delete() returns or raises (the
\* transport has a request timeout), a task whose sleep is over is woken,
\* and time goes on.  Nothing obliges the chat to send another message.
SpecFair ==
    /\ Init
    /\ [][NextFair]_vars
    /\ WF_vars(\E h \in deleting : HandleAlbumTouch(h))
    /\ WF_vars(\E t \in tasks, s \in BOOLEAN : FlushAlbum(t, s))
    /\ WF_vars(Tick)

\* The moderation of the rows of a table.
SpecReview == InitReview /\ [][NextReview]_vars

\* =============================================================== claims
FileIds(items) == [i \in 1..Len(items) |-> items[i].file_id]

InSeq(x, q) == \E i \in 1..Len(q) : q[i] = x

\* The rows inserted for the albums of key k, in order.
CreatedFor(k) == SelectSeq(created, LAMBDA c : c.row.media_group_id = k)

\* The row inserted under id pid.
RowOf(pid) == (CHOOSE c \in {created[i] : i \in 1..Len(created)} : c.id = pid).row

\* Nothing of key k is buffered, awaited or armed.
Drained(k) ==
    /\ k \notin DOMAIN media_buffer
    /\ \A h \in deleting : h.key # k
    /\ \A t \in tasks : t.key # k

\* Every gap between two consecutive arrivals on k was below the quiet period.
GapsBelow(k) == \A i \in 2..Len(arrivals[k]) : arrivals[k][i].gap = "below"

\* C1: when every gap between the album items of a key is below the quiet
\* period, at most one submission is ever created for the key, and once the
\* key is drained there is exactly one, holding all the items in arrival
\* order.
C1_OneSubmissionPerBurst ==
    \A k \in Keys :
        (arrivals[k] # <<>> /\ GapsBelow(k)) =>
            /\ Len(CreatedFor(k)) <= 1
            /\ Drained(k) =>
                  /\ Len(CreatedFor(k)) = 1
                  /\ FileIds(CreatedFor(k)[1].row.items) = FileIds(arrivals[k])

\* C10: two items of a key that arrive more than the quiet period apart are
\* never in the same buffer entry and never in the same submission.
C10_GapSplitsSubmissions ==
    \A k \in Keys : \A i \in 2..Len(arrivals[k]) :
        arrivals[k][i].gap = "above" =>
            LET a == arrivals[k][i - 1].file_id
                b == arrivals[k][i].file_id
                Both(items) == InSeq(a, FileIds(items)) /\ InSeq(b, FileIds(items))
            IN  /\ ~Both(Get(media_buffer, k, <<>>))
                /\ \A j \in 1..Len(created) : ~Both(created[j].row.items)

\* What the handlers that ended have answered.
Succeeded(kind, pid, ack) ==
    [kind |-> kind, pid |-> pid, found |-> TRUE, ack |-> ack] \in answers

\* C2: an ApproveAll and a RejectAll on the same id never both find the row
\* and go through with it.
C2_ApproveRejectExclusive ==
    \A pid \in Pids :
        ~(/\ Succeeded("approve_all", pid, "Approved & posted")
          /\ Succeeded("reject_all", pid, "Rejected"))

\* The step is the first one of a new callback.
Received == nact' = nact + 1

\* A keep/remove callback names an index the row does not have.
BadIndex(e) ==
    /\ e.kind \in {"keep", "remove"}
    /\ e.found
    /\ e.idx \notin 0..(Len(pending[e.pid].items) - 1)

\* C3: a callback that names an id without a row, or an index outside the
\* row's items, is answered "Not found" and changes neither the table nor
\* any selection.
C3_AbsentIsNotFound ==
    [][(Received /\ (~last'.found \/ BadIndex(last'))) =>
           /\ last'.ack = "Not found"
           /\ pending' = pending
           /\ selective_selections' = selective_selections]_vars

\* The posts of media (not the attribution texts) in the main group.
MediaPosts(kind) ==
    SelectSeq(main_group, LAMBDA m : m.kind = kind /\ m.what # "text")

\* media is all the items of row in their order, the caption on the first.
IsWholeRow(media, row) ==
    /\ Len(media) = Len(row.items)
    /\ \A i \in 1..Len(media) :
          /\ media[i].file_id = row.items[i].file_id
          /\ media[i].type = row.items[i].type
          /\ media[i].caption = (IF i = 1 THEN row.caption ELSE "")

\* C4: what ApproveAll posts is the whole row in its stored order with the
\* caption on the first item only; when it has gone through the row is
\* deleted; an ApproveAll on an id without a row answers "Not found" and
\* ends there, before any send.
C4_ApproveAll ==
    /\ \A i \in 1..Len(MediaPosts("approve_all")) :
          IsWholeRow(MediaPosts("approve_all")[i].media,
                     RowOf(MediaPosts("approve_all")[i].pid))
    /\ (last.kind = "approve_all" /\ last.ack = "Approved & posted")
          => ~Found(last.pid)
    /\ (last.kind = "approve_all" /\ ~last.found)
          => last.step = "done" /\ last.ack = "Not found"

\* One ApproveAll has posted the three items of row 1 with its caption and
\* deleted the row, and a second ApproveAll on the id was answered
\* "Not found".
C4_Witness ==
    /\ Len(MediaPosts("approve_all")) = 1
    /\ Len(MediaPosts("approve_all")[1].media) = 3
    /\ MediaPosts("approve_all")[1].media[1].caption = "hi"
    /\ Succeeded("approve_all", 1, "Approved & posted")
    /\ last = Event("approve_all", 1, 0, FALSE, "done", "Not found")
    /\ Len(main_group) = 2
    /\ cb = EmptyDict

\* What finalize has built from a selection: the handlers about to post it
\* and the posts made.
FinalizeBuilds ==
    {[pid |-> h.pid, sel |-> h.sel, media |-> h.media] :
        h \in {x \in DOMAIN cb : x.kind = "finalize"}}
    \cup {[pid |-> MediaPosts("finalize")[i].pid,
           sel |-> MediaPosts("finalize")[i].sel,
           media |-> MediaPosts("finalize")[i].media] :
             i \in 1..Len(MediaPosts("finalize"))}

\* The 0-based indices of row's items that media holds.
PostedIdx(media, row) ==
    {i \in 0..(Len(row.items) - 1) :
        InSeq(row.items[i + 1].file_id, FileIds(media))}

\* media holds items of row, each once, in the order of the row.
IsSubsequence(media, row) ==
    /\ \A j \in 1..Len(media) : InSeq(media[j].file_id, FileIds(row.items))
    /\ \A j, k \in 1..Len(media) : \A a, b \in 1..Len(row.items) :
          (j < k /\ media[j].file_id = row.items[a].file_id
                 /\ media[k].file_id = row.items[b].file_id) => a < b

\* C5: what Finalize posts is a subsequence of the row's items in their
\* original order that holds every item decided keep and no item decided
\* remove.
C5_FinalizeKeptInOrder ==
    \A f \in FinalizeBuilds :
        /\ IsSubsequence(f.media, RowOf(f.pid))
        /\ \A i \in DOMAIN f.sel :
              i \in 0..(Len(RowOf(f.pid).items) - 1) =>
                  (i \in PostedIdx(f.media, RowOf(f.pid)) <=> f.sel[i])

\* Finalize has posted items 1 and 3 of a three-item row, item 2 removed.
C5_Witness ==
    \E i \in 1..Len(main_group) :
        /\ main_group[i].kind = "finalize"
        /\ FileIds(main_group[i].media) = <<1, 3>>
        /\ main_group[i].sel = (1 :> FALSE)

\* C6: what Finalize posts holds every item whose index has no decision.
C6_UndecidedIsKept ==
    \A f \in FinalizeBuilds :
        \A i \in 0..(Len(RowOf(f.pid).items) - 1) :
            i \notin DOMAIN f.sel => i \in PostedIdx(f.media, RowOf(f.pid))

\* Items [1, 2] with the single decision {0: remove}: Finalize has posted
\* [2].
C6_Witness ==
    \E i \in 1..Len(main_group) :
        /\ main_group[i].kind = "finalize"
        /\ Len(RowOf(main_group[i].pid).items) = 2
        /\ main_group[i].sel = (0 :> FALSE)
        /\ FileIds(main_group[i].media) = <<2>>

\* Every index of the row of pid is decided remove.
AllRemoved(pid) ==
    /\ pid \in DOMAIN selective_selections
    /\ \A i \in 0..(Len(pending[pid].items) - 1) :
          /\ i \in DOMAIN selective_selections[pid]
          /\ ~selective_selections[pid][i]

\* C7: a Finalize that finds every index decided remove sends nothing to the
\* main group, leaves no send behind, and deletes the row.
C7_AllRemovedDiscards ==
    [][(Received /\ last'.kind = "finalize" /\ last'.found /\ AllRemoved(last'.pid)) =>
           /\ main_group' = main_group
           /\ cb' = cb
           /\ last'.pid \notin DOMAIN pending']_vars

\* A Finalize has ended on a two-item row with both items removed: the row
\* is gone and the main group is empty.
C7_Witness ==
    /\ last = Event("finalize", 1, 0, TRUE, "done", "Selective approval completed")
    /\ Len(RowOf(1).items) = 2
    /\ ~Found(1)
    /\ main_group = <<>>
    /\ cb = EmptyDict

\* The step is a send of ApproveAll or Finalize to the main group that
\* raises.
SendRaises ==
    /\ last'.step = "raised"
    /\ last'.kind \in {"approve_all", "finalize"}
    /\ ~Received

\* C8: a send to the main group that fails changes neither the table nor the
\* selections nor the main group, and the handler ends there without sending
\* again; a row is only ever deleted by a RejectAll that found it or by an
\* ApproveAll or Finalize that went through.
C8_FailedSendKeepsRow ==
    [][/\ SendRaises =>
              /\ pending' = pending
              /\ selective_selections' = selective_selections
              /\ main_group' = main_group
              /\ \E h \in DOMAIN cb : h.kind = last'.kind /\ cb' = Leave(cb, h)
       /\ \A pid \in DOMAIN pending :
              pid \notin DOMAIN pending' =>
                  /\ last'.pid = pid
                  /\ last'.found
                  /\ last'.step = "done"
                  /\ last'.kind \in {"approve_all", "reject_all", "finalize"}]_vars

\* An ApproveAll on row 1 has failed in its send, the row stayed, and a
\* second ApproveAll on it has gone through.
C8_Witness ==
    /\ [kind |-> "approve_all", pid |-> 1, found |-> TRUE, ack |-> ""] \in answers
    /\ Succeeded("approve_all", 1, "Approved & posted")
    /\ Len(MediaPosts("approve_all")) = 1
    /\ ~Found(1)

\* C9: every callback whose handler has returned was answered.
C9_EveryActionAnswered == last.step = "done" => last.ack # ""

\* The captions, in arrival order, of the messages whose items are in items.
CaptionsOf(k, items) ==
    LET arr == SelectSeq(arrivals[k], LAMBDA a : InSeq(a.file_id, FileIds(items)))
    IN  [i \in 1..Len(arr) |-> arr[i].caption]

\* The first caption of q that is not empty, "" when there is none.
RECURSIVE FirstCaption(_)
FirstCaption(q) ==
    IF q = <<>> THEN ""
    ELSE IF Head(q) # "" THEN Head(q) ELSE FirstCaption(Tail(q))

\* C11: the caption of every album row, and the caption kept for every
\* buffer entry, is the first non-empty caption among the messages of its
\* items in arrival order ("" when none has one): a later caption never
\* replaces it.
C11_FirstCaptionWins ==
    /\ \A i \in 1..Len(created) :
          created[i].row.is_album =>
              created[i].row.caption =
                  FirstCaption(CaptionsOf(created[i].row.media_group_id,
                                          created[i].row.items))
    /\ \A k \in DOMAIN media_buffer :
          Get(album_meta[k], "caption", "") =
              FirstCaption(CaptionsOf(k, media_buffer[k]))

\* An album of three messages with the captions "", "hi", "bye" was flushed
\* into one row: its caption is "hi".
C11_Witness ==
    \E i \in 1..Len(created) :
        /\ created[i].row.is_album
        /\ CaptionsOf(created[i].row.media_group_id, created[i].row.items)
               = <<"", "hi", "bye">>
        /\ created[i].row.caption = "hi"

\* The decision stored for index i of id p: "keep", "remove" or "none".
Entry(sels, p, i) ==
    IF p \in DOMAIN sels /\ i \in DOMAIN sels[p]
    THEN (IF sels[p][i] THEN "keep" ELSE "remove")
    ELSE "none"

\* The step is the first one of a Keep or Remove callback.
KeepRemoveReceived == Received /\ last'.kind \in {"keep", "remove"}

\* C12: a Keep or Remove makes its decision the stored one of its (id,
\* index) whatever was stored before, touches no other decision, and changes
\* nothing when the same decision was already stored; no other step alters a
\* stored decision (it can only drop it); and Finalize builds its post from
\* the decisions stored when it is called.
C12_LastDecisionCounts ==
    [][/\ KeepRemoveReceived =>
              /\ Entry(selective_selections', last'.pid, last'.idx) = last'.kind
              /\ \A p \in Pids, i \in Idxs :
                     <<p, i>> # <<last'.pid, last'.idx>> =>
                         Entry(selective_selections', p, i)
                             = Entry(selective_selections, p, i)
              /\ Entry(selective_selections, last'.pid, last'.idx) = last'.kind
                     => selective_selections' = selective_selections
       /\ ~KeepRemoveReceived =>
              \A p \in Pids, i \in Idxs :
                  Entry(selective_selections', p, i)
                      \in {Entry(selective_selections, p, i), "none"}
       /\ \A h \in DOMAIN cb' :
              (h.kind = "finalize" /\ Get(cb', h, 0) > Get(cb, h, 0)
                                  /\ h.pc = "send_media") =>
                  h.sel = Get(selective_selections, h.pid, EmptyDict)]_vars

\* Keep then Remove on index 0 of row 1: the Keep was answered, and Finalize
\* has posted the row without item 1.
C12_Witness ==
    /\ [kind |-> "keep", pid |-> 1, found |-> TRUE, ack |-> "Kept"] \in answers
    /\ \E i \in 1..Len(main_group) :
          /\ main_group[i].kind = "finalize"
          /\ main_group[i].pid = 1
          /\ main_group[i].sel = (0 :> FALSE)
          /\ FileIds(main_group[i].media) = <<2, 3>>

\* Everything sent or about to be sent as media to the main group: how it is
\* sent and what.
Republished ==
    {[kind |-> h.kind, what |-> h.mode, media |-> h.media] :
        h \in {x \in DOMAIN cb : x.kind \in {"approve_all", "finalize"}}}
    \cup {[kind |-> main_group[i].kind, what |-> main_group[i].what,
           media |-> main_group[i].media] :
             i \in {j \in 1..Len(main_group) : main_group[j].what # "text"}}

\* C13: ApproveAll and Finalize send media to the main group by one rule: as
\* a media group when there is more than one item, as a single photo or video
\* when there is exactly one; and a handler that has gone through has sent
\* one attribution message after its media.
C13_SameRepublishRule ==
    /\ \A r \in Republished :
          /\ Len(r.media) > 1 => r.what = "media_group"
          /\ Len(r.media) = 1 => r.what = r.media[1].type
    /\ (last.step = "done" /\ last.found /\ last.ack = "Approved & posted") =>
          /\ Len(main_group) >= 2
          /\ main_group[Len(main_group)].what = "text"
          /\ main_group[Len(main_group)].kind = "approve_all"

\* C14: a selection map exists only for an id whose row is in the table.
C14_SelectionOnlyForStoredRow ==
    \A pid \in DOMAIN selective_selections : Found(pid)

\* Every index of the row of pid has a decision.
IsComplete(pid) ==
    /\ pid \in DOMAIN selective_selections
    /\ \A i \in 0..(Len(pending[pid].items) - 1) :
          i \in DOMAIN selective_selections[pid]

\* The step is the end of a Keep or Remove callback that found its row and
\* returned.
KeepRemoveDone ==
    /\ ~Received
    /\ last'.kind \in {"keep", "remove"}
    /\ last'.step = "done"
    /\ last'.found

\* C15: a Keep or Remove that returns has sent the finalize button if and
\* only if every index of the row has a decision.
C15_PromptIffComplete ==
    [][KeepRemoveDone =>
          (approval_group' # approval_group <=> IsComplete(last'.pid))]_vars

\* C16: between two SelectivelyApprove of an id at most one finalize button
\* is sent for it.
C16_OneFinalizePrompt ==
    \A pid \in Pids :
        [kind |-> "selective", pid |-> pid, found |-> TRUE,
         ack |-> "Select items to keep/remove"] \in answers
            => finalize_prompts[pid] <= 1

\* The flush task t is gone after the step.
Ended(t) == \A u \in tasks' : u.id # t.id

\* t was cancelled by the step: another task of its key took its place.
Cancelled(t) == Ended(t) /\ \E u \in tasks' : u.key = t.key

\* t has run in the step: its sleep was over and it was not cancelled.
Fired(t) == Ended(t) /\ ~Cancelled(t) /\ t.remaining = 0

\* C17: no timer of a key fires while a message of that key has been
\* appended to the buffer and its re-arm of the timer is still to come.
C17_AppendAndRearmAtomic ==
    [][\A t \in tasks : Fired(t) => \A h \in deleting : h.key # t.key]_vars

\* C18: there is never more than one sleeping flush task per key, and it is
\* the one registered for the key; a task that is cancelled by a re-arm
\* leaves the buffer, the table and the rows created as they are.
C18_OneTimerPerKey ==
    /\ [](\A t \in tasks :
             /\ t.key \in DOMAIN flush_tasks
             /\ flush_tasks[t.key] = t.id
             /\ \A u \in tasks : u.key = t.key => u = t)
    /\ [][\A t \in tasks : Cancelled(t) =>
              /\ media_buffer' = media_buffer
              /\ album_meta' = album_meta
              /\ pending' = pending
              /\ created' = created]_vars

\* Two messages of g1 are buffered and both have re-armed the timer: the
\* task of the first was cancelled (nothing was flushed), the task of the
\* second is the only one.
C18_Witness ==
    /\ "g1" \in DOMAIN media_buffer
    /\ FileIds(media_buffer["g1"]) = <<1, 2>>
    /\ deleting = {}
    /\ created = <<>>
    /\ \E t \in tasks : t.id = 2 /\ tasks = {t}

\* No SelectivelyApprove has been handled for the stored row of pid.
Forwarded(pid) ==
    /\ Found(pid)
    /\ \A o \in answers : ~(o.kind = "selective" /\ o.pid = pid /\ o.found)

\* C19: a Keep, Remove or Finalize on a row for which no SelectivelyApprove
\* was handled changes neither the table nor the selections and starts no
\* send to the main group.
C19_ForwardedIgnoresReview ==
    [][(/\ Received
        /\ last'.kind \in {"keep", "remove", "finalize"}
        /\ Forwarded(last'.pid)) =>
           /\ pending' = pending
           /\ selective_selections' = selective_selections
           /\ \A h \in DOMAIN cb' :
                  h.kind = "finalize" => Get(cb', h, 0) = Get(cb, h, 0)]_vars

\* C20: every row in the table has at least one item, and a timer that fires
\* on a key without buffered items inserts no row and sends nothing to the
\* approval group.
C20_RowsHaveItems ==
    /\ [](\A pid \in DOMAIN pending : pending[pid].items # <<>>)
    /\ [][\A t \in tasks :
              (Fired(t) /\ Get(media_buffer, t.key, <<>>) = <<>>) =>
                  /\ pending' = pending
                  /\ created' = created
                  /\ approval_group' = approval_group]_vars

\* The first timer of g1 has flushed both messages into one row and the
\* timer armed by the second message has fired on the empty key: the table
\* still holds that one row.
C20_Witness ==
    /\ empty_flushes = 1
    /\ tasks = {}
    /\ Len(created) = 1
    /\ DOMAIN pending = {1}
    /\ FileIds(pending[1].items) = <<1, 2>>

\* C21: in what Finalize posts, the first item carries the caption of the
\* row and no other item carries a caption (so none does when the row has no
\* caption), whichever items were removed.
C21_CaptionOnFirstSurvivor ==
    \A f \in FinalizeBuilds :
        \A j \in 1..Len(f.media) :
            f.media[j].caption = (IF j = 1 THEN RowOf(f.pid).caption ELSE "")

\* Item 0 of a three-item row with caption "hi" was removed: Finalize has
\* posted items 2 and 3 with "hi" on item 2.
C21_Witness ==
    \E i \in 1..Len(main_group) :
        /\ main_group[i].kind = "finalize"
        /\ main_group[i].sel = (0 :> FALSE)
        /\ FileIds(main_group[i].media) = <<2, 3>>
        /\ main_group[i].media[1].caption = "hi"
        /\ main_group[i].media[2].caption = ""

\* How many times x occurs in the sequence q.
Count(x, q) == Cardinality({i \in 1..Len(q) : q[i] = x})

\* How many times the item file_id occurs in the buffer entries.
InBuffers(file_id) ==
    LET n(k) == Count(file_id, FileIds(Get(media_buffer, k, <<>>)))
    IN  n("g1") + n("g2")

\* How many times the item file_id occurs in the album rows created.
RECURSIVE InCreated(_, _)
InCreated(file_id, j) ==
    IF j = 0 THEN 0
    ELSE InCreated(file_id, j - 1)
         + (IF created[j].row.is_album
            THEN Count(file_id, FileIds(created[j].row.items)) ELSE 0)

\* C22: every album item received is exactly once in the buffer entries and
\* the rows created, taken together; and it is in the entry of its own key
\* or in a row of its own key.
C22_NoItemLostOrDuplicated ==
    \A k \in Keys : \A i \in 1..Len(arrivals[k]) :
        LET f == arrivals[k][i].file_id
        IN  /\ InBuffers(f) + InCreated(f, Len(created)) = 1
            /\ \/ InSeq(f, FileIds(Get(media_buffer, k, <<>>)))
               \/ \E j \in 1..Len(CreatedFor(k)) :
                      InSeq(f, FileIds(CreatedFor(k)[j].row.items))

\* Items 1 and 2 of g1 were flushed into a row while item 3 of g1 is in a
\* new buffer entry.
C22_Witness ==
    /\ Len(arrivals["g1"]) = 3
    /\ Len(CreatedFor("g1")) = 1
    /\ FileIds(CreatedFor("g1")[1].row.items) = <<1, 2>>
    /\ FileIds(Get(media_buffer, "g1", <<>>)) = <<3>>

\* C23: the media of a row is posted to the main group at most once.
C23_PublishedAtMostOnce ==
    \A pid \in Pids :
        Cardinality({i \in 1..Len(main_group) :
                        main_group[i].pid = pid /\ main_group[i].what # "text"})
            <= 1

\* C25: a Keep or Remove changes nothing but the decision of its (id,
\* index): the table, the main group, the maps of the other ids and the
\* other decisions of its id stay as they are, also in the rest of the
\* handler; and no step ever changes a row that stays in the table.
C25_KeepRemoveFrame ==
    [][/\ KeepRemoveReceived =>
              /\ pending' = pending
              /\ main_group' = main_group
              /\ \A p \in Pids \ {last'.pid} :
                     /\ p \in DOMAIN selective_selections'
                            <=> p \in DOMAIN selective_selections
                     /\ p \in DOMAIN selective_selections =>
                            selective_selections'[p] = selective_selections[p]
              /\ \A i \in Idxs \ {last'.idx} :
                     Entry(selective_selections', last'.pid, i)
                         = Entry(selective_selections, last'.pid, i)
       /\ (~Received /\ last'.kind \in {"keep", "remove"}) =>
              /\ pending' = pending
              /\ main_group' = main_group
              /\ selective_selections' = selective_selections
       /\ \A pid \in DOMAIN pending \cap DOMAIN pending' :
              pending'[pid] = pending[pid] /\ pending[pid] = RowOf(pid)]_vars

\* Remove(2, 0) and then Keep(1, 1) were handled: each id has the map of its
\* own decision and both rows are as they were inserted.
C25_Witness ==
    /\ last.kind = "keep" /\ last.pid = 1
    /\ selective_selections = (1 :> (1 :> TRUE)) @@ (2 :> (0 :> FALSE))
    /\ DOMAIN pending = {1, 2}
    /\ pending[1] = RowOf(1) /\ pending[2] = RowOf(2)

\* Every item received on k is in a row created for k, and k has no buffer
\* entry, no metadata and no timer entry.
Settled(k) ==
    /\ k \notin DOMAIN media_buffer
    /\ k \notin DOMAIN album_meta
    /\ k \notin DOMAIN flush_tasks
    /\ \A i \in 1..Len(arrivals[k]) :
          \E j \in 1..Len(CreatedFor(k)) :
              InSeq(arrivals[k][i].file_id, FileIds(CreatedFor(k)[j].row.items))

\* C24: with a fair event loop every key is settled in the end and stays so:
\* once the messages of a key have stopped, its items are in stored rows and
\* its buffer, metadata and timer entries are gone.
C24_EventuallyDrained == \A k \in Keys : <>[]Settled(k)

\* Three messages of g1 have been received and the key is settled.
C24_Witness ==
    /\ Len(arrivals["g1"]) = 3
    /\ Settled("g1")
    /\ deleting = {}
    /\ tasks = {}

====
